---- MODULE Spec2Model ----
(***************************************************************************)
(* A model of the file-to-table ingestion code of helper/gen_sql_chunk.py  *)
(* (create_sqlite_from_uploaded_file, get_file_info,                       *)
(* preview_uploaded_file), of its code generation                          *)
(* (json_to_sqlite_sample_data, generate_create_table_sql,                 *)
(* generate_insert_sql), of the page script app.py, of the insight         *)
(* generator of helper/insight_gen.py and of the chat script sql_gen.py.   *)
(*                                                                         *)
(* Python strings are sequences of one-character strings, so that          *)
(* str.replace, str.split, str.join, str.endswith and f-string formatting  *)
(* are computed character by character.                                    *)
(***************************************************************************)
EXTENDS Integers, Sequences, FiniteSets, TLC

VARIABLES
    original,       \* the column labels of the parsed frame, before cleaning
    columns,        \* df.columns
    prev_columns,   \* df.columns before the last cleaning pass
    applied,        \* how many cleaning passes have run on df.columns
    uploaded_file,  \* the Streamlit UploadedFile: name, body, read position
    disk,           \* temporary .db files: path -> exists / table written
    next_tmp,       \* how many NamedTemporaryFile names have been handed out
    ret,            \* what the last call returned or raised
    steps,          \* the stages the last create_sqlite_from_uploaded_file ran
    history,        \* one record per create_sqlite_from_uploaded_file call: its arguments, df.columns at its end, what it wrote
    data,           \* json.load(f): the keys and the records of the JSON file given to json_to_sqlite_sample_data
    generated,      \* what the last json_to_sqlite_sample_data call built and returned
    widgets,        \* app.py: the values of the widgets of the page
    session_state,  \* app.py: st.session_state
    engine,         \* app.py: the variable engine when the script reaches "Execute query"
    page,           \* app.py: the button that started the last page run and what the run showed
    connected,      \* whether a page run has set up the connection of the backend now selected
    dbs,            \* app.py: the contents of the SQLite files the engines point to
    committed,      \* whether a page run has committed a modification to the backend now selected
    insight,        \* helper/insight_gen.py: the generator and its st.session_state entries
    chat            \* sql_gen.py: st.session_state and the messages the last run sent

vars == <<original, columns, prev_columns, applied,
          uploaded_file, disk, next_tmp, ret, steps, history,
          data, generated,
          widgets, session_state, engine, page, connected, dbs, committed,
          insight, chat>>

sanVars == <<original, columns, prev_columns, applied>>
ingVars == <<uploaded_file, disk, next_tmp, ret, steps, history>>
genVars == <<data, generated>>
pageVars == <<widgets, session_state, engine, page, connected, dbs, committed>>
chatVars == <<insight, chat>>
appVars == <<pageVars, chatVars>>

(***************************************************************************)
(* Bounds of the model.                                                    *)
(***************************************************************************)
\* total number of characters in the column names of one header
MaxChars == 6
\* rows of a source
MaxRows == 4
\* records of a JSON file given to json_to_sqlite_sample_data
MaxRecords == 2
\* calls of create_sqlite_from_uploaded_file in one behaviour
MaxCalls == 2
\* cleaning passes over df.columns in one behaviour
\* frames of up to MaxChunks * chunk_size + 1 rows are given to generate_insert_sql
MaxChunks == 2
MaxPasses == 2

None == "None"

(***************************************************************************)
(* Strings.                                                                *)
(***************************************************************************)
DigitChars == <<"0", "1", "2", "3", "4", "5", "6", "7", "8", "9">>

\* str(n) of a non-negative int n, as in the f-strings f"{col}_{counter}" and f"column_{i}"
RECURSIVE Digits(_)
Digits(n) ==
    IF n < 10 THEN <<DigitChars[n + 1]>>
    ELSE Digits(n \div 10) \o <<DigitChars[(n % 10) + 1]>>

\* s.endswith(suffix)
EndsWith(s, suffix) ==
    /\ Len(s) >= Len(suffix)
    /\ SubSeq(s, Len(s) - Len(suffix) + 1, Len(s)) = suffix

\* a column label of a DataFrame: a str, or an int (the RangeIndex of a frame built from scalars)
StrLabel(s) == [tag |-> "str", s |-> s, n |-> 0]
IntLabel(n) == [tag |-> "int", s |-> <<>>, n |-> n]

\* str(col)
PyStr(col) == IF col.tag = "int" THEN Digits(col.n) ELSE col.s

LowerCase ==
    <<"a", "b", "c", "d", "e", "f", "g", "h", "i", "j", "k", "l", "m",
      "n", "o", "p", "q", "r", "s", "t", "u", "v", "w", "x", "y", "z">>
UpperCase ==
    <<"A", "B", "C", "D", "E", "F", "G", "H", "I", "J", "K", "L", "M",
      "N", "O", "P", "Q", "R", "S", "T", "U", "V", "W", "X", "Y", "Z">>
Range(seq) == {seq[i] : i \in 1..Len(seq)}
Underscore == "_"

\* the characters the chained .replace(ch, '_') calls name
Blocklist ==
    {" ", "-", ".", "(", ")", "/", "\\", "[", "]", "{", "}", ":", ";", ",",
     "?", "!", "@", "#", "$", "%", "^", "&", "*", "+", "=", "|"}

(***************************************************************************)
(* Column name cleaning of create_sqlite_from_uploaded_file.               *)
(***************************************************************************)
\* str(col).replace(' ', '_').replace('-', '_') ... .replace('|', '_')
ReplaceChars(name) ==
    [i \in 1..Len(name) |-> IF name[i] \in Blocklist THEN Underscore ELSE name[i]]

\* name.split('_'): the fragments between underscores, empty ones included
RECURSIVE SplitUnderscore(_, _)
SplitUnderscore(name, part) ==
    IF name = <<>> THEN <<part>>
    ELSE IF Head(name) = Underscore
         THEN <<part>> \o SplitUnderscore(Tail(name), <<>>)
         ELSE SplitUnderscore(Tail(name), Append(part, Head(name)))

\* sep.join(parts)
RECURSIVE JoinWith(_, _)
JoinWith(sep, parts) ==
    IF parts = <<>> THEN <<>>
    ELSE IF Len(parts) = 1 THEN parts[1]
         ELSE LET half == Len(parts) \div 2
              IN  JoinWith(sep, SubSeq(parts, 1, half)) \o sep
                  \o JoinWith(sep, SubSeq(parts, half + 1, Len(parts)))

\* name.replace('__', '_').strip('_') in place of the split and join
RECURSIVE ReplacePairs(_)
ReplacePairs(name) ==
    IF Len(name) < 2 THEN name
    ELSE IF name[1] = Underscore /\ name[2] = Underscore
         THEN <<Underscore>> \o ReplacePairs(SubSeq(name, 3, Len(name)))
         ELSE <<name[1]>> \o ReplacePairs(Tail(name))
RECURSIVE StripUnderscores(_)
StripUnderscores(name) ==
    IF name = <<>> THEN name
    ELSE IF Head(name) = Underscore THEN StripUnderscores(Tail(name))
    ELSE IF name[Len(name)] = Underscore THEN StripUnderscores(SubSeq(name, 1, Len(name) - 1))
    ELSE name
CollapseUnderscoresMutOnePass(name) == StripUnderscores(ReplacePairs(name))
\* name.strip('_') alone
CollapseUnderscoresMutStripOnly(name) == StripUnderscores(name)

\* '_'.join([part for part in col.split('_') if part])
CollapseUnderscores(name) ==
    JoinWith(<<Underscore>>, SelectSeq(SplitUnderscore(name, <<>>), LAMBDA part : part # <<>>))

\* f"column_{i}"
Placeholder(i) == <<"c", "o", "l", "u", "m", "n", "_">> \o Digits(i)

\* the placeholder numbered from one
FillEmptyMutOneBased(cols) ==
    [k \in 1..Len(cols) |-> IF cols[k] = <<>> THEN Placeholder(k) ELSE cols[k]]

\* f"column_{i}" if col == "" else col, for i, col in enumerate(df.columns)
FillEmpty(cols) ==
    [k \in 1..Len(cols) |-> IF cols[k] = <<>> THEN Placeholder(k - 1) ELSE cols[k]]

\* f"{col}_{counter}"
Suffixed(col, counter) == col \o <<Underscore>> \o Digits(counter)

\* counter = 1; while f"{col}_{counter}" in seen_columns: counter += 1
RECURSIVE FreeCounterFrom(_, _, _)
FreeCounterFrom(col, counter, seen_columns) ==
    IF Suffixed(col, counter) \in seen_columns
    THEN FreeCounterFrom(col, counter + 1, seen_columns)
    ELSE counter

FirstCounter == 1

\* the duplicate branch without its while loop
RenameMutSkipSeen(col, seen_columns) ==
    IF col \in seen_columns THEN Suffixed(col, FirstCounter) ELSE col

\* the duplicate branch with the counter starting one too high
RenameMutFromTwo(col, seen_columns) ==
    IF col \in seen_columns
    THEN Suffixed(col, FreeCounterFrom(col, FirstCounter + 1, seen_columns))
    ELSE col

\* the name one column gets in the duplicate loop, given the names already handed out
Rename(col, seen_columns) ==
    IF col \in seen_columns
    THEN Suffixed(col, FreeCounterFrom(col, FirstCounter, seen_columns))
    ELSE col

\* the loop "for col in df.columns" over seen_columns and new_columns
RECURSIVE ResolveDuplicatesFrom(_, _, _)
ResolveDuplicatesFrom(cols, seen_columns, new_columns) ==
    IF cols = <<>> THEN new_columns
    ELSE LET new_col == Rename(Head(cols), seen_columns)
         IN  ResolveDuplicatesFrom(Tail(cols), seen_columns \cup {new_col},
                                   Append(new_columns, new_col))

ResolveDuplicates(cols) == ResolveDuplicatesFrom(cols, {}, <<>>)

\* one column after the character replacement and the underscore clean-up
CleanName(col) == CollapseUnderscores(ReplaceChars(PyStr(col)))

\* df.columns after the first three assignments, before the duplicate loop
CleanedNames(cols) == FillEmpty([k \in 1..Len(cols) |-> CleanName(cols[k])])

\* the four assignments to df.columns, in order
SanitizeColumns(cols) == ResolveDuplicates(CleanedNames(cols))

(***************************************************************************)
(* Column name cleaning of csv_to_sqlite_sample_data,                      *)
(* json_to_sqlite_sample_data and create_sqlite_file_directly: the same    *)
(* list comprehension in all three.                                        *)
(***************************************************************************)
\* [col.replace(' ', '_').replace('-', '_').replace('.', '_') for col in df.columns]:
\* an int label has no replace method
DirectColumns(cols) ==
    IF \E k \in 1..Len(cols) : cols[k].tag = "int"
    THEN [error |-> "AttributeError", columns |-> <<>>]
    ELSE [error |-> None,
          columns |-> [k \in 1..Len(cols) |->
                         [i \in 1..Len(cols[k].s) |->
                            IF cols[k].s[i] \in {" ", "-", "."} THEN Underscore
                            ELSE cols[k].s[i]]]]

\* the labels of a frame whose columns were assigned a list of str
AsLabels(names) == [k \in 1..Len(names) |-> StrLabel(names[k])]


(***************************************************************************)
(* Column headers as inputs: the labels pandas gives a parsed frame are    *)
(* pairwise distinct (read_csv renames repeated header fields, the keys of *)
(* a JSON object are distinct).                                            *)
(***************************************************************************)
Distinct(seq) == \A i, j \in 1..Len(seq) : i # j => seq[i] # seq[j]

RECURSIVE TotalChars(_)
TotalChars(cols) ==
    IF cols = <<>> THEN 0 ELSE Len(PyStr(Head(cols))) + TotalChars(Tail(cols))

\* a letter, a digit, a blocklisted character
HeaderAlphabet == {"a", "1", " "}

(***************************************************************************)
(* Uploaded files.  A body is what the bytes of the file are: bytes that   *)
(* are no UTF-8 text, text that neither parser accepts (the zero-byte file *)
(* among them), CSV text (the header labels read_csv reports and the       *)
(* number of data lines) or JSON text (the value json.loads returns).      *)
(***************************************************************************)
NaN == 0 - 1
\* the value in data line r, field c of a source
Cell(r, c) == 10 * r + c

JScalar(v) == [t |-> "scalar", v |-> v, keys |-> <<>>, vals |-> <<>>, items |-> <<>>]
JObject(keys, vals) == [t |-> "object", v |-> 0, keys |-> keys, vals |-> vals, items |-> <<>>]
JArray(items) == [t |-> "array", v |-> 0, keys |-> <<>>, vals |-> <<>>, items |-> items]

\* the record of line r of a source with the given field names
JRecord(header, r) ==
    JObject(header, [c \in 1..Len(header) |-> JScalar(Cell(r, c))])
JRecords(header, n) == JArray([r \in 1..n |-> JRecord(header, r)])

Headers ==
    { <<<<"a", "<", "b">>, <<"b", " ", "c">>>>,
      <<<<"a", " ", "b">>, <<"a", "_", "b">>>>,
      <<<<"a">>, <<"A">>>> }

BinaryBody == [kind |-> "binary", header |-> <<>>, nrows |-> 0, doc |-> JScalar(0)]
EmptyBody == [kind |-> "empty", header |-> <<>>, nrows |-> 0, doc |-> JScalar(0)]
GarbageBody == [kind |-> "garbage", header |-> <<>>, nrows |-> 0, doc |-> JScalar(0)]
CsvBody(header, n) == [kind |-> "csv", header |-> header, nrows |-> n, doc |-> JScalar(0)]
JsonBody(doc) == [kind |-> "json", header |-> <<>>, nrows |-> 0, doc |-> doc]

WideHeader == <<<<"a", "<", "b">>, <<"b", " ", "c">>>>
ClashingHeader == <<<<"a", " ", "b">>, <<"a", "_", "b">>>>
JsonDocs ==
    {JRecords(WideHeader, n) : n \in 0..MaxRows}
    \cup {JObject(<<<<"k">>>>, <<JRecords(ClashingHeader, n)>>) : n \in 0..MaxRows}
    \cup {JArray([r \in 1..n |-> JScalar(Cell(r, 1))]) : n \in 1..MaxRows}
    \cup {JRecord(h, 1) : h \in Headers}
    \cup {JObject(<<<<"k">>>>, <<JRecord(h, 1)>>) : h \in Headers}
    \cup {JObject(<<>>, <<>>), JObject(<<<<"k">>>>, <<JScalar(5)>>), JScalar(7)}

CsvName == <<"d", ".", "c", "s", "v">>
JsonName == <<"d", ".", "j", "s", "o", "n">>
CsvSuffix == <<".", "c", "s", "v">>
JsonSuffix == <<".", "j", "s", "o", "n">>

\* the files a caller can hand over
Files ==
    {[name |-> CsvName, body |-> b] :
        b \in {CsvBody(h, n) : h \in Headers, n \in 0..MaxRows}
               \cup {BinaryBody, EmptyBody, GarbageBody}}
    \cup {[name |-> JsonName, body |-> b] :
        b \in {JsonBody(d) : d \in JsonDocs} \cup {BinaryBody, EmptyBody, GarbageBody}}
    \cup {[name |-> n, body |-> b] :
        n \in {<<"D", ".", "C", "S", "V">>, <<"d", ".", "t", "x", "t">>},
        b \in {CsvBody(<<<<"a">>, <<"A">>>>, 1), EmptyBody}}

NoFile == [present |-> FALSE, name |-> <<>>, body |-> EmptyBody, pos |-> "start"]
Uploaded(f) == [present |-> TRUE, name |-> f.name, body |-> f.body, pos |-> "start"]

(***************************************************************************)
(* Frames.                                                                 *)
(***************************************************************************)
\* pd.DataFrame(): no columns, no rows
EmptyFrame == [columns |-> <<>>, rows |-> <<>>]

\* pd.read_csv(io.StringIO(content)) of CSV text
CsvFrame(body) ==
    [columns |-> AsLabels(body.header),
     rows |-> [r \in 1..body.nrows |-> [c \in 1..Len(body.header) |-> Cell(r, c)]]]

\* the keys of the records of a list, in order of first appearance
RECURSIVE UnionKeys(_, _)
UnionKeys(items, acc) ==
    IF items = <<>> THEN acc
    ELSE UnionKeys(Tail(items),
                   acc \o SelectSeq(Head(items).keys, LAMBDA k : k \notin Range(acc)))

\* record[key], NaN where the record has no such key
ValueAt(record, key) ==
    IF \E i \in 1..Len(record.keys) : record.keys[i] = key
    THEN record.vals[CHOOSE i \in 1..Len(record.keys) : record.keys[i] = key].v
    ELSE NaN

\* pd.DataFrame(items) of a list of records or of a list of scalars
DataFrameOf(items) ==
    IF items = <<>> THEN EmptyFrame
    ELSE IF \A i \in 1..Len(items) : items[i].t = "scalar"
    THEN [columns |-> <<IntLabel(0)>>,
          rows |-> [i \in 1..Len(items) |-> <<items[i].v>>]]
    ELSE LET keys == UnionKeys(items, <<>>)
         IN  [columns |-> AsLabels(keys),
              rows |-> [i \in 1..Len(items) |->
                          [c \in 1..Len(keys) |-> ValueAt(items[i], keys[c])]]]

\* df.empty
IsEmpty(df) == Len(df.columns) = 0 \/ Len(df.rows) = 0

\* df.head(num_rows)
HeadRows(df, num_rows) ==
    [df EXCEPT !.rows = SubSeq(df.rows, 1, IF num_rows < Len(df.rows) THEN num_rows ELSE Len(df.rows))]


(***************************************************************************)
(* Reading and parsing the uploaded file.                                  *)
(***************************************************************************)
\* content.decode('utf-8'): the exception it raises, None when it returns
DecodeError(body) == IF body.kind = "binary" THEN "UnicodeDecodeError" ELSE None

\* pd.read_csv(csv_buffer) of decoded text: the exception it raises
ReadCsvError(body) ==
    CASE body.kind = "csv" -> None
      [] body.kind = "empty" -> "EmptyDataError"
      [] body.kind = "garbage" -> "ParserError"

\* json.loads(content) of decoded text: the exception it raises
JsonLoadsError(body) ==
    CASE body.kind = "json" -> None
      [] body.kind \in {"empty", "garbage"} -> "JSONDecodeError"

\* what the reading part hands on: the exception raised (or None), the frame, the read position
LoadResult(error, df, pos) == [error |-> error, df |-> df, pos |-> pos]

\* the frame of a parsed JSON list or dict (the branches all three functions share)
JsonFrame(doc) ==
    IF doc.t = "array" THEN DataFrameOf(doc.items)
    ELSE IF Len(doc.keys) = 1
         THEN IF doc.vals[1].t = "array"
              THEN DataFrameOf(doc.vals[1].items)
              ELSE DataFrameOf(<<doc.vals[1]>>)
         ELSE DataFrameOf(<<doc>>)

\* create_sqlite_from_uploaded_file, from uploaded_file.seek(0) to the frame df
CreateLoad(file) ==
    IF EndsWith(file.name, CsvSuffix)
    THEN IF DecodeError(file.body) # None THEN LoadResult(DecodeError(file.body), EmptyFrame, "end")
         ELSE IF ReadCsvError(file.body) # None THEN LoadResult(ReadCsvError(file.body), EmptyFrame, "end")
         ELSE LoadResult(None, CsvFrame(file.body), "end")
    ELSE IF EndsWith(file.name, JsonSuffix)
    THEN IF DecodeError(file.body) # None THEN LoadResult(DecodeError(file.body), EmptyFrame, "end")
         ELSE IF JsonLoadsError(file.body) # None THEN LoadResult(JsonLoadsError(file.body), EmptyFrame, "end")
         ELSE IF file.body.doc.t \in {"array", "object"} THEN LoadResult(None, JsonFrame(file.body.doc), "end")
         ELSE LoadResult("Unsupported JSON structure", EmptyFrame, "end")
    ELSE LoadResult("Unsupported file type", EmptyFrame, "start")

(***************************************************************************)
(* Sampling.                                                               *)
(***************************************************************************)
NoneInt == [some |-> FALSE, n |-> 0]
Some(n) == [some |-> TRUE, n |-> n]
\* "sample_size is not None" in place of the truth value
TruthyMutNotNone(sample_size) == sample_size.some

\* the truth value Python gives sample_size
Truthy(sample_size) == sample_size.some /\ sample_size.n # 0

\* numpy.random.RandomState(42).permutation(N) for N = 1..8: the legacy seeding of
\* MT19937 with 42, then the shuffle of arange(N) drawing j = random_interval(i)
\* for i = N-1 .. 1
Permutation42 ==
    << <<0>>,
       <<1, 0>>,
       <<0, 1, 2>>,
       <<1, 3, 0, 2>>,
       <<1, 4, 2, 0, 3>>,
       <<0, 1, 5, 2, 4, 3>>,
       <<0, 1, 5, 2, 4, 3, 6>>,
       <<1, 5, 0, 7, 2, 4, 3, 6>> >>

\* the row positions df.sample(n=n) draws with the process-wide generator,
\* whose state every earlier draw has moved on
SampleIndicesUnseeded(N, n) == [i \in 1..n |-> (Permutation42[N][i] + next_tmp) % N]

\* the zero-based row positions df.sample(n=n, random_state=42) takes of N rows
SampleIndices(N, n) == [i \in 1..n |-> Permutation42[N][i]]

\* df.sample(n=sample_size, random_state=42)
SampleRows(df, n) ==
    LET idx == SampleIndices(Len(df.rows), n)
    IN  [df EXCEPT !.rows = [i \in 1..n |-> df.rows[idx[i] + 1]]]

(***************************************************************************)
(* Writing the table.                                                      *)
(***************************************************************************)
\* the lower-case form of a character
LowerOf == [ch \in Range(UpperCase) |->
              LowerCase[CHOOSE i \in 1..Len(UpperCase) : UpperCase[i] = ch]]
LowerName(name) ==
    [i \in 1..Len(name) |-> IF name[i] \in DOMAIN LowerOf THEN LowerOf[name[i]] ELSE name[i]]

\* df.to_sql(table_name, engine, if_exists='replace', index=False): SQLite refuses
\* a CREATE TABLE whose column names are equal up to letter case
ToSqlError(df) ==
    LET folded == [k \in 1..Len(df.columns) |-> LowerName(PyStr(df.columns[k]))]
    IN  IF \E i, j \in 1..Len(folded) : i < j /\ folded[i] = folded[j]
        THEN "OperationalError"
        ELSE None

NoTable == [name |-> <<>>, columns |-> <<>>, rows |-> <<>>]
TableOf(table_name, df) ==
    [name |-> table_name,
     columns |-> [k \in 1..Len(df.columns) |-> PyStr(df.columns[k])],
     rows |-> df.rows]

(***************************************************************************)
(* create_sqlite_from_uploaded_file after the frame is parsed: the stages  *)
(* of the try block in the order the code runs them.                       *)
(***************************************************************************)
CreateStagesMutLateCheck == <<"sample", "empty_check", "clean", "to_sql">>

CreateStages == <<"empty_check", "sample", "clean", "to_sql">>

\* one stage on the frame in hand
RunStage(stage, st, table_name, sample_size) ==
    LET ran == [st EXCEPT !.steps = Append(@, stage)]
    IN  CASE stage = "empty_check" ->
               IF IsEmpty(st.df)
               THEN [ran EXCEPT !.error = "The uploaded file contains no data"]
               ELSE ran
          [] stage = "sample" ->
               IF Truthy(sample_size) /\ Len(st.df.rows) > sample_size.n
               THEN IF sample_size.n < 0
                    THEN [ran EXCEPT !.error = "ValueError"]
                    ELSE [ran EXCEPT !.df = SampleRows(st.df, sample_size.n),
                                     !.sampled = TRUE]
               ELSE ran
          [] stage = "clean" ->
               [ran EXCEPT !.df.columns = AsLabels(SanitizeColumns(st.df.columns))]
          [] stage = "to_sql" ->
               LET error == ToSqlError(st.df)
               IN  IF error # None
                   THEN [ran EXCEPT !.error = error]
                   ELSE [ran EXCEPT !.table = TableOf(table_name, st.df), !.written = TRUE]

RECURSIVE RunStages(_, _, _, _)
RunStages(stages, st, table_name, sample_size) ==
    IF stages = <<>> \/ st.error # None THEN st
    ELSE RunStages(Tail(stages), RunStage(Head(stages), st, table_name, sample_size),
                   table_name, sample_size)

\* the try block of create_sqlite_from_uploaded_file
CreateOutcome(file, table_name, sample_size) ==
    LET load == CreateLoad(file)
        start == [error |-> load.error, df |-> load.df, steps |-> <<"load">>,
                  loaded |-> load.error = None, sampled |-> FALSE, written |-> FALSE, table |-> NoTable,
                  pos |-> load.pos, source_rows |-> Len(load.df.rows)]
    IN  RunStages(CreateStages, start, table_name, sample_size)


(***************************************************************************)
(* What a call hands back.                                                 *)
(***************************************************************************)
NoValue ==
    [py |-> "None", keys |-> {}, type |-> "", rows |-> 0, columns |-> 0,
     column_names |-> <<>>, error |-> None, frame |-> EmptyFrame, path |-> 0]
PathValue(path) == [NoValue EXCEPT !.py = "str", !.path = path]
FrameValue(df) == [NoValue EXCEPT !.py = "DataFrame", !.frame = df]
MessageValue(error) == [NoValue EXCEPT !.py = "str", !.error = error]
StatsDict(type, df) ==
    [NoValue EXCEPT !.py = "dict",
                    !.keys = {"type", "rows", "columns", "column_names", "size_mb"},
                    !.type = type, !.rows = Len(df.rows), !.columns = Len(df.columns),
                    !.column_names = df.columns]
ErrorDict(error) ==
    [NoValue EXCEPT !.py = "dict", !.keys = {"type", "error", "size_mb"},
                    !.type = "Unknown", !.error = error]

Returned(op, value) ==
    [op |-> op, raised |-> FALSE, error |-> None, value |-> value,
     parsed |-> FALSE, source_rows |-> 0]
NoCall == Returned("none", NoValue)

(***************************************************************************)
(* get_file_info and preview_uploaded_file.                                *)
(***************************************************************************)
Outcome(value, pos) == [value |-> value, pos |-> pos]

\* get_file_info(uploaded_file)
InfoOutcome(file) ==
    IF EndsWith(file.name, CsvSuffix)
    THEN IF DecodeError(file.body) # None
         THEN Outcome(ErrorDict(DecodeError(file.body)), "end")
         ELSE IF ReadCsvError(file.body) # None
         THEN Outcome(ErrorDict(ReadCsvError(file.body)), "start")
         ELSE Outcome(StatsDict("CSV", CsvFrame(file.body)), "start")
    ELSE IF EndsWith(file.name, JsonSuffix)
    THEN IF DecodeError(file.body) # None
         THEN Outcome(ErrorDict(DecodeError(file.body)), "end")
         ELSE IF JsonLoadsError(file.body) # None
         THEN Outcome(ErrorDict(JsonLoadsError(file.body)), "start")
         ELSE IF file.body.doc.t \in {"array", "object"}
         THEN Outcome(StatsDict("JSON", JsonFrame(file.body.doc)), "start")
         ELSE Outcome(ErrorDict("UnboundLocalError"), "start")
    ELSE Outcome(NoValue, "start")

\* preview_uploaded_file(uploaded_file, num_rows)
PreviewOutcome(file, num_rows) ==
    IF EndsWith(file.name, CsvSuffix)
    THEN IF DecodeError(file.body) # None
         THEN Outcome(MessageValue(DecodeError(file.body)), "end")
         ELSE IF ReadCsvError(file.body) # None
         THEN Outcome(MessageValue(ReadCsvError(file.body)), "start")
         ELSE Outcome(FrameValue(HeadRows(CsvFrame(file.body), num_rows)), "start")
    ELSE IF EndsWith(file.name, JsonSuffix)
    THEN IF DecodeError(file.body) # None
         THEN Outcome(MessageValue(DecodeError(file.body)), "end")
         ELSE IF JsonLoadsError(file.body) # None
         THEN Outcome(MessageValue(JsonLoadsError(file.body)), "start")
         ELSE IF file.body.doc.t \in {"array", "object"}
         THEN Outcome(FrameValue(HeadRows(JsonFrame(file.body.doc), num_rows)), "start")
         ELSE Outcome(MessageValue("UnboundLocalError"), "start")
    ELSE Outcome(NoValue, "start")

(***************************************************************************)
(* Temporary files.                                                        *)
(***************************************************************************)
\* tempfile.NamedTemporaryFile(delete=False, suffix='.db'); temp_db.close()
NewTempFile == [exists |-> TRUE, written |-> FALSE, table |-> NoTable]

\* the except branch: os.unlink(temp_db_pth) if os.path.exists(temp_db_pth)
CleanupMutKeepFile(files, path) == files

Cleanup(files, path) == [files EXCEPT ![path].exists = FALSE]

(***************************************************************************)
(* Code generation: json_to_sqlite_sample_data with                        *)
(* generate_create_table_sql and generate_insert_sql.                      *)
(***************************************************************************)
\* a Python value in a cell of a frame: an int n, a float n.frac (frac one decimal
\* digit), a str s, a bool b, None or NaN
PyValue(kind, n, frac, s, b) == [kind |-> kind, n |-> n, frac |-> frac, s |-> s, b |-> b]

\* str(col) for each column label
Names(cols) == [k \in 1..Len(cols) |-> PyStr(cols[k])]

\* the values a field of a JSON record can hold: a whole number, a number with a
\* fraction, the text NULL, a boolean, null, and NaN (also what a missing key gives)
RawCells ==
    {PyValue("int", 1, 0, <<>>, FALSE), PyValue("float", 2, 5, <<>>, FALSE),
     PyValue("str", 0, 0, <<"N", "U", "L", "L">>, FALSE), PyValue("bool", 0, 0, <<>>, TRUE),
     PyValue("None", 0, 0, <<>>, FALSE), PyValue("nan", 0, 0, <<>>, FALSE)}

\* the keys of the records
GenHeaders ==
    { <<<<"a", " ", "b">>, <<"c">>>>,
      <<<<"a", " ", "b">>, <<"a", "_", "b">>>> }

IsMissing(value) == value.kind \in {"None", "nan"}

\* the dtype pd.DataFrame(data) infers for one column of Python values
InferDtype(cells) ==
    LET kinds == {cells[i].kind : i \in 1..Len(cells)} \ {"None", "nan"}
        missing == \E i \in 1..Len(cells) : IsMissing(cells[i])
    IN  IF kinds = {}
        THEN IF \E i \in 1..Len(cells) : cells[i].kind = "nan" THEN "float64" ELSE "object"
        ELSE IF kinds = {"int"} THEN IF missing THEN "float64" ELSE "int64"
        ELSE IF kinds \subseteq {"int", "float"} THEN "float64"
        ELSE IF kinds = {"bool"} /\ ~missing THEN "bool"
        ELSE "object"

\* the value a cell has once its column has the dtype
Coerce(value, dtype) ==
    IF dtype = "float64"
    THEN IF IsMissing(value) THEN PyValue("nan", 0, 0, <<>>, FALSE)
         ELSE IF value.kind = "int" THEN PyValue("float", value.n, 0, <<>>, FALSE)
         ELSE value
    ELSE value

\* pd.DataFrame(data) of a list of records with the same keys
GenFrame(keys, rows) ==
    IF rows = <<>> THEN [columns |-> <<>>, dtypes |-> <<>>, rows |-> <<>>]
    ELSE LET dtypes == [c \in 1..Len(keys) |->
                          InferDtype([r \in 1..Len(rows) |-> rows[r][c]])]
         IN  [columns |-> AsLabels(keys),
              dtypes |-> dtypes,
              rows |-> [r \in 1..Len(rows) |->
                          [c \in 1..Len(keys) |-> Coerce(rows[r][c], dtypes[c])]]]

\* the SQLite type for a pandas dtype
SqlType(dtype) ==
    CASE dtype = "int64" -> <<"I", "N", "T", "E", "G", "E", "R">>
      [] dtype = "float64" -> <<"R", "E", "A", "L">>
      [] dtype = "bool" -> <<"I", "N", "T", "E", "G", "E", "R">>
      [] dtype = "datetime64" -> <<"D", "A", "T", "E">>
      [] OTHER -> <<"T", "E", "X", "T">>

\* df[col].dtype: a frame with two columns called col gives a DataFrame, which has no dtype
ColumnDtypeError(df) ==
    IF \E i, j \in 1..Len(df.columns) : i # j /\ df.columns[i] = df.columns[j]
    THEN "AttributeError"
    ELSE None

\* sql_type of every column, in the order of "for col in df.columns"
ColumnSqlTypes(df) == [c \in 1..Len(df.columns) |-> SqlType(df.dtypes[c])]

\* generate_create_table_sql(df, table_name)
GenerateCreateTableSql(df, table_name) ==
    LET cols == [c \in 1..Len(df.columns) |->
                   <<" ", " ", " ", " ">> \o PyStr(df.columns[c]) \o <<" ">> \o ColumnSqlTypes(df)[c]]
    IN  <<"C", "R", "E", "A", "T", "E", " ", "T", "A", "B", "L", "E", " ">> \o table_name \o <<" ", "(", "\n">>
        \o JoinWith(<<",", "\n">>, cols) \o <<"\n", ")">>

\* the row iterrows hands out: a Series of one dtype, so whole numbers become
\* floats when the frame has integer and float columns only
IterRow(df, r) ==
    IF /\ \A c \in 1..Len(df.dtypes) : df.dtypes[c] \in {"int64", "float64"}
       /\ \E c \in 1..Len(df.dtypes) : df.dtypes[c] = "float64"
    THEN [c \in 1..Len(df.columns) |-> Coerce(df.rows[r][c], "float64")]
    ELSE df.rows[r]

\* value.replace("'", "''")
RECURSIVE EscapeQuotes(_)
EscapeQuotes(text) ==
    IF text = <<>> THEN <<>>
    ELSE (IF Head(text) = "'" THEN <<"'", "'">> ELSE <<Head(text)>>) \o EscapeQuotes(Tail(text))

\* str(value) of an int, a float or a bool
PyStrOf(value) ==
    CASE value.kind = "int" -> Digits(value.n)
      [] value.kind = "float" -> Digits(value.n) \o <<".">> \o Digits(value.frac)
      [] value.kind = "bool" -> IF value.b THEN <<"T", "r", "u", "e">>
                                ELSE <<"F", "a", "l", "s", "e">>

Quoted(text) == <<"'">> \o EscapeQuotes(text) \o <<"'">>

\* the missing-value test left out
SqlValueMutNoNull(value) ==
    IF value.kind = "str" THEN Quoted(value.s)
    ELSE IF value.kind \in {"int", "float", "bool"} THEN PyStrOf(value)
    ELSE Quoted(IF value.kind = "nan" THEN <<"n", "a", "n">> ELSE <<"N", "o", "n", "e">>)

\* the text one cell contributes to record_values; a bool is an instance of int
SqlValue(value) ==
    IF IsMissing(value) THEN <<"N", "U", "L", "L">>
    ELSE IF value.kind = "str" THEN Quoted(value.s)
    ELSE IF value.kind \in {"int", "float", "bool"} THEN PyStrOf(value)
    ELSE IF value.kind = "bool" THEN (IF value.b THEN <<"1">> ELSE <<"0">>)
    ELSE Quoted(value.s)

\* record_values of every row, in the order of df.iterrows()
RecordValues(df) ==
    [r \in 1..Len(df.rows) |->
        LET row == IterRow(df, r) IN [c \in 1..Len(row) |-> SqlValue(row[c])]]

chunk_size == 100

\* all records in one chunk
ChunksMutOneStatement(records) == IF records = <<>> THEN <<>> ELSE <<records>>

\* records[i:i + chunk_size] for i in range(0, len(records), chunk_size)
RECURSIVE Chunks(_)
Chunks(records) ==
    IF records = <<>> THEN <<>>
    ELSE IF Len(records) <= chunk_size THEN <<records>>
         ELSE <<SubSeq(records, 1, chunk_size)>>
              \o Chunks(SubSeq(records, chunk_size + 1, Len(records)))

\* records: f"({', '.join(record_values)})" of every row
Records(df) ==
    LET values == RecordValues(df)
    IN  [r \in 1..Len(values) |-> <<"(">> \o JoinWith(<<",", " ">>, values[r]) \o <<")">>]

\* generate_insert_sql(df, table_name)
GenerateInsertSql(df, table_name) ==
    LET cols == JoinWith(<<",", " ">>, Names(df.columns))
        chunks == Chunks(Records(df))
        insert_statements ==
            [k \in 1..Len(chunks) |->
                <<"c", "o", "n", "n", ".", "e", "x", "e", "c", "u", "t", "e", "(", "t", "e", "x", "t", "(", "\"", "\"", "\"", "\n", " ", " ", " ", " ", " ", " ", " ", " ", " ", " ", " ", " ", "I", "N", "S", "E", "R", "T", " ", "I", "N", "T", "O", " ">> \o table_name \o <<" ", "(">> \o cols
                \o <<")", " ", "V", "A", "L", "U", "E", "S", " ", "\n", " ", " ", " ", " ", " ", " ", " ", " ", " ", " ", " ", " ">> \o JoinWith(<<",", "\n", " ", " ", " ", " ">>, chunks[k]) \o <<"\n", " ", " ", " ", " ", " ", " ", " ", " ", "\"", "\"", "\"", ")", ")">>]
    IN  JoinWith(<<"\n", "\n">>, insert_statements)

NotGenerated ==
    [called |-> FALSE, error |-> None, df |-> GenFrame(<<>>, <<>>),
     sql_types |-> <<>>, create_table_sql |-> <<>>, record_values |-> <<>>, chunks |-> <<>>,
     insert_sql |-> <<>>]

\* sample_size=1000 is the default of the three code generating functions
DefaultSampleSize == 1000

(***************************************************************************)
(* app.py: one run of the script, from the session state set-up to the     *)
(* "Execute query" block.                                                  *)
(***************************************************************************)
RemoteTypes == {"PostgreSQL", "MySQL", "SQL Server"}
\* the options of the "Database Type" selectbox
DbTypes == {"SQLite (Sample Data)", "SQLite (File Upload)"} \cup RemoteTypes

\* the variable engine: None, or an Engine, whether a connection to it can be
\* opened, and the database file it points to
NoEngine == [kind |-> "None", usable |-> FALSE, db |-> "none"]
Engine(kind, usable, db) == [kind |-> kind, usable |-> usable, db |-> db]

\* the first of sample_queries, which its button puts into current_query
SampleQuery == <<"S", "E", "L", "E", "C", "T", " ", "*", " ", "F", "R", "O", "M", " ", "e", "m", "p", "l", "o", "y", "e", "e", "s", ";">>

\* what the user types into the query text area: nothing, a query that returns a
\* row, a statement the database cannot parse, a statement that modifies the
\* database and a query that sees the modification
Queries ==
    {<<>>, <<"S", "E", "L", "E", "C", "T", " ", "1">>, <<"S", "E", "L", "E", "C">>,
     <<"C", "R", "E", "A", "T", "E", " ", "T", "A", "B", "L", "E", " ", "t", " ", "(", "x", ")">>,
     <<"S", "E", "L", "E", "C", "T", " ", "*", " ", "F", "R", "O", "M", " ", "t">>}

\* the files the csv/json uploader can hold: one that converts, one whose
\* conversion fails, one get_file_info cannot read
AppFiles ==
    {[name |-> CsvName, body |-> b] :
        b \in {CsvBody(WideHeader, 1), CsvBody(<<<<"a">>, <<"A">>>>, 1), BinaryBody}}

\* the widgets as a fresh page shows them
DefaultWidgets ==
    [db_type |-> "SQLite (Sample Data)", convert |-> FALSE, uploaded_file |-> NoFile,
     db_file |-> "none", query |-> <<>>, use_gen_ai |-> FALSE, api_key |-> FALSE]

\* query.strip()
RECURSIVE Strip(_)
Strip(query) ==
    IF query = <<>> THEN query
    ELSE IF Head(query) \in {" ", "\n", "\t"} THEN Strip(Tail(query))
    ELSE IF query[Len(query)] \in {" ", "\n", "\t"} THEN Strip(SubSeq(query, 1, Len(query) - 1))
    ELSE query

\* widgets of a branch the script does not run lose their value
Rendered(w, ss) ==
    LET gen_ai == Strip(ss.current_query) # <<>>
    IN  [w EXCEPT !.convert = (w.db_type = "SQLite (File Upload)" /\ @),
                  !.uploaded_file = IF w.db_type = "SQLite (File Upload)" /\ w.convert THEN @ ELSE NoFile,
                  !.db_file = IF w.db_type = "SQLite (File Upload)" /\ ~w.convert THEN @ ELSE "none",
                  !.use_gen_ai = (gen_ai /\ @),
                  !.api_key = (gen_ai /\ w.use_gen_ai /\ @)]

\* pd.DataFrame(result.fetchall(), columns=result.keys()) of a query that returns data
ResultFrame(query) ==
    IF query = <<"S", "E", "L", "E", "C", "T", " ", "1">>
    THEN [defined |-> TRUE, columns |-> <<"1">>, rows |-> 1]
    ELSE IF query = SampleQuery
    THEN [defined |-> TRUE, columns |-> <<"id", "name", "department", "salary", "hire_date">>,
          rows |-> 5]
    ELSE [defined |-> TRUE, columns |-> <<"x">>, rows |-> 0]

\* st.session_state before the first run of the script
NewSession ==
    [sample_db_path |-> FALSE, converted_engine |-> FALSE, converted_from |-> NoFile,
     query_history |-> <<>>, current_query |-> <<>>,
     returned_df |-> [defined |-> FALSE, columns |-> <<>>, rows |-> 0],
     current_context |-> [updated |-> FALSE, last_query |-> <<>>, db_type |-> "",
                          data_summary |-> [defined |-> FALSE, columns |-> <<>>, rows |-> 0]]]

\* the database files: whether the table t has been created in the sample
\* database, in the converted database, in the copy of the uploaded SQLite file
NewDatabases == [db \in {"sample", "converted", "dbfile"} |-> FALSE]

SetupResult(e, ss, d, ok) == [engine |-> e, session_state |-> ss, dbs |-> d, ok |-> ok]

\* get_file_info(uploaded_file) has the key 'error', for each file of the uploader
InfoFails ==
    [f \in {Uploaded(g) : g \in AppFiles} |-> "error" \in InfoOutcome(f).value.keys]
\* what create_sqlite_from_uploaded_file(uploaded_file, "data", None) raises, for
\* each file of the uploader; the number input stays at its default 0 ("all records")
ConvertError ==
    [f \in {Uploaded(g) : g \in AppFiles} |->
        CreateOutcome(f, <<"d", "a", "t", "a">>, NoneInt).error]

\* the "Convert my csv/json" branch: a conversion writes a new database file;
\* whatever st.session_state.converted_engine holds is used
SetupConvert(w, ss, d, clicked) ==
    IF ~w.uploaded_file.present THEN SetupResult(NoEngine, ss, d, FALSE)
    ELSE LET done == /\ ~InfoFails[w.uploaded_file]
                     /\ clicked = "convert"
                     /\ ConvertError[w.uploaded_file] = None
             after == IF done
                      THEN [ss EXCEPT !.converted_engine = TRUE,
                                      !.converted_from = w.uploaded_file]
                      ELSE ss
         IN  SetupResult(IF after.converted_engine THEN Engine("sqlite", TRUE, "converted")
                         ELSE NoEngine,
                         after,
                         IF done THEN [d EXCEPT !["converted"] = FALSE] ELSE d,
                         done)

\* engine = None, then the branch of db_type.  The sample database is created once
\* and opened on every run; the "Upload SQLite file" branch writes the uploaded
\* bytes to a new temporary file on every run and assigns engine before it tries
\* the connection; the branch of the other types assigns engine only on the run
\* the Connect button started.
Setup(w, ss, d, clicked, reachable) ==
    IF w.db_type = "SQLite (Sample Data)"
    THEN SetupResult(Engine("sqlite", TRUE, "sample"), [ss EXCEPT !.sample_db_path = TRUE], d, TRUE)
    ELSE IF w.db_type = "SQLite (File Upload)"
    THEN IF w.convert THEN SetupConvert(w, ss, d, clicked)
         ELSE IF w.db_file = "none" THEN SetupResult(NoEngine, ss, d, FALSE)
         ELSE SetupResult(Engine("sqlite", w.db_file = "valid", "dbfile"), ss,
                          [d EXCEPT !["dbfile"] = FALSE], w.db_file = "valid")
    ELSE IF clicked = "connect"
    THEN SetupResult(Engine(w.db_type, reachable, "remote"), ss, d, reachable)
    ELSE SetupResult(NoEngine, ss, d, FALSE)

\* conn.execute(text(query)) raises: a statement the database cannot parse, a
\* table that exists already, a table that does not exist
QueryRaises(query, db, d) ==
    \/ query = <<"S", "E", "L", "E", "C">>
    \/ query = <<"C", "R", "E", "A", "T", "E", " ", "T", "A", "B", "L", "E", " ", "t", " ", "(", "x", ")">> /\ d[db]
    \/ query = <<"S", "E", "L", "E", "C", "T", " ", "*", " ", "F", "R", "O", "M", " ", "t">> /\ ~d[db]
    \/ query = SampleQuery /\ db # "sample"

\* query.upper()
Upper(query) ==
    [i \in 1..Len(query) |->
        IF query[i] \in Range(LowerCase)
        THEN UpperCase[CHOOSE k \in 1..Len(LowerCase) : LowerCase[k] = query[i]]
        ELSE query[i]]
StartsWith(query, prefix) ==
    Len(query) >= Len(prefix) /\ SubSeq(query, 1, Len(prefix)) = prefix
\* query.strip().upper().startswith(('SELECT', 'SHOW', 'DESCRIBE', 'PRAGMA'))
ReturnsData(query) ==
    \E prefix \in {<<"S", "E", "L", "E", "C", "T">>, <<"S", "H", "O", "W">>,
                   <<"D", "E", "S", "C", "R", "I", "B", "E">>, <<"P", "R", "A", "G", "M", "A">>} :
        StartsWith(Upper(Strip(query)), prefix)

\* the query is appended whether or not the history holds it
ExecuteQueryMutAlwaysAppend(e, query, ss, d, execute_btn) ==
    IF execute_btn /\ query # <<>> /\ e.kind # "None"
    THEN IF ~e.usable \/ QueryRaises(query, e.db, d)
         THEN [shown |-> "error", session_state |-> ss, dbs |-> d, committed |-> FALSE]
         ELSE LET logged == [ss EXCEPT !.query_history = Append(@, query)]
              IN  IF ReturnsData(query)
                  THEN [shown |-> "executed",
                        session_state |-> [logged EXCEPT !.returned_df = ResultFrame(query)],
                        dbs |-> d, committed |-> FALSE]
                  ELSE [shown |-> "executed", session_state |-> logged,
                        dbs |-> [d EXCEPT ![e.db] = TRUE], committed |-> TRUE]
    ELSE IF execute_btn /\ e.kind = "None"
    THEN [shown |-> "Please configure database connection first", session_state |-> ss,
          dbs |-> d, committed |-> FALSE]
    ELSE IF execute_btn /\ query = <<>>
    THEN [shown |-> "Please enter a SQL query", session_state |-> ss,
          dbs |-> d, committed |-> FALSE]
    ELSE [shown |-> "", session_state |-> ss, dbs |-> d, committed |-> FALSE]

\* the "Execute query" block: what is shown, the session state and the database
\* files it leaves, and whether a modifying statement has been committed
ExecuteQuery(e, query, ss, d, execute_btn) ==
    IF execute_btn /\ query # <<>> /\ e.kind # "None"
    THEN IF ~e.usable \/ QueryRaises(query, e.db, d)
         THEN [shown |-> "error", session_state |-> ss, dbs |-> d, committed |-> FALSE]
         ELSE LET logged == IF query \in Range(ss.query_history) THEN ss
                            ELSE [ss EXCEPT !.query_history = Append(@, query)]
              IN  IF ReturnsData(query)
                  THEN [shown |-> "executed",
                        session_state |-> [logged EXCEPT !.returned_df = ResultFrame(query)],
                        dbs |-> d, committed |-> FALSE]
                  ELSE [shown |-> "executed", session_state |-> logged,
                        dbs |-> [d EXCEPT ![e.db] = TRUE], committed |-> TRUE]
    ELSE IF execute_btn /\ e.kind = "None"
    THEN [shown |-> "Please configure database connection first", session_state |-> ss,
          dbs |-> d, committed |-> FALSE]
    ELSE IF execute_btn /\ query = <<>>
    THEN [shown |-> "Please enter a SQL query", session_state |-> ss,
          dbs |-> d, committed |-> FALSE]
    ELSE [shown |-> "", session_state |-> ss, dbs |-> d, committed |-> FALSE]

\* the "Gen Ai" section, which the script shows while current_query is not blank:
\* with the toggle on and an API key typed in it reads
\* st.session_state.returned_df and, unless that frame is empty, calls update_context
GenAi(w, ss, e) ==
    IF Strip(ss.current_query) = <<>> \/ ~w.use_gen_ai \/ ~w.api_key
    THEN [ai |-> "", session_state |-> ss]
    ELSE IF ~ss.returned_df.defined
    THEN [ai |-> "AttributeError", session_state |-> ss]
    ELSE IF ss.returned_df.rows = 0
    THEN [ai |-> "no data", session_state |-> ss]
    ELSE IF e.kind = "None"
    THEN [ai |-> "Error with AI Data Analysis", session_state |-> ss]
    ELSE [ai |-> "update_context",
          session_state |->
              [ss EXCEPT !.current_context =
                  [updated |-> TRUE, last_query |-> w.query, db_type |-> e.kind,
                   data_summary |-> ss.returned_df]]]

(***************************************************************************)
(* helper/insight_gen.py and sql_gen.py: the chat sessions.                *)
(***************************************************************************)
\* no SQLInsightGenerator has been constructed in the session: the entries
\* contextual_counter and ai_messages do not exist yet
NoGenerator ==
    [constructed |-> FALSE, client |-> FALSE, contextual_counter |-> 0, ai_messages |-> <<>>,
     returned |-> ""]

\* the history is trimmed one call later
ManageConversationHistoryMutLate(g) ==
    IF g.contextual_counter + 1 > 10
    THEN [g EXCEPT !.contextual_counter = 0,
                   !.ai_messages = SubSeq(@, IF Len(@) > 2 THEN Len(@) - 1 ELSE 1, Len(@))]
    ELSE [g EXCEPT !.contextual_counter = @ + 1]

\* _manage_conversation_history(): the counter goes up by one; at 10 the messages
\* are cut to ai_messages[-2:] and the counter is set to 0
ManageConversationHistory(g) ==
    IF g.contextual_counter + 1 >= 10
    THEN [g EXCEPT !.contextual_counter = 0,
                   !.ai_messages = SubSeq(@, IF Len(@) > 2 THEN Len(@) - 1 ELSE 1, Len(@))]
    ELSE [g EXCEPT !.contextual_counter = @ + 1]

\* st.session_state of sql_gen.py after its first run, the query input, and the
\* messages the last run gave to the chat API (none yet)
NewChat == [contextual_counter |-> 0, messages |-> <<>>, query |-> <<>>, sent |-> <<>>]

(***************************************************************************)
(* The state machine.                                                      *)
(***************************************************************************)
\* table_name="data" is the default of the function and of the text input of app.py
TableNames == {<<"d", "a", "t", "a">>}
SampleSizes == {NoneInt} \cup {Some(n) : n \in (0 - 1)..(MaxRows + 1)}
\* num_rows=5 is the default of preview_uploaded_file and what app.py uses
DefaultPreviewRows == 5
PreviewSizes == {2, DefaultPreviewRows}

\* nothing uploaded, nothing converted, no frame parsed
Init ==
    /\ uploaded_file = NoFile
    /\ disk = <<>>
    /\ next_tmp = 0
    /\ ret = NoCall
    /\ steps = <<>>
    /\ history = <<>>
    /\ original = <<>>
    /\ columns = <<>>
    /\ prev_columns = <<>>
    /\ applied = 0
    /\ data = [keys |-> <<>>, rows |-> <<>>]
    /\ generated = NotGenerated
    /\ widgets = DefaultWidgets
    /\ session_state = NewSession
    /\ engine = NoEngine
    /\ page = [loaded |-> FALSE, clicked |-> "", shown |-> "", ai |-> ""]
    /\ connected = FALSE
    /\ dbs = NewDatabases
    /\ committed = FALSE
    /\ insight = NoGenerator
    /\ chat = NewChat

\* st.sidebar.file_uploader hands the script a fresh UploadedFile
Upload(f) ==
    /\ ~uploaded_file.present
    /\ uploaded_file' = Uploaded(f)
    /\ UNCHANGED <<disk, next_tmp, ret, steps, history>>
    /\ UNCHANGED sanVars
    /\ UNCHANGED genVars
    /\ UNCHANGED appVars

GetFileInfo ==
    /\ uploaded_file.present
    /\ LET out == InfoOutcome(uploaded_file)
       IN  /\ ret' = Returned("get_file_info", out.value)
           /\ uploaded_file' = [uploaded_file EXCEPT !.pos = out.pos]
    /\ UNCHANGED <<disk, next_tmp, steps, history>>
    /\ UNCHANGED sanVars
    /\ UNCHANGED genVars
    /\ UNCHANGED appVars

PreviewUploadedFile(num_rows) ==
    /\ uploaded_file.present
    /\ LET out == PreviewOutcome(uploaded_file, num_rows)
       IN  /\ ret' = Returned("preview_uploaded_file", out.value)
           /\ uploaded_file' = [uploaded_file EXCEPT !.pos = out.pos]
    /\ UNCHANGED <<disk, next_tmp, steps, history>>
    /\ UNCHANGED sanVars
    /\ UNCHANGED genVars
    /\ UNCHANGED appVars

\* create_sqlite_from_uploaded_file(uploaded_file, table_name, sample_size)
Create(table_name, sample_size) ==
    LET path == next_tmp + 1
        out == CreateOutcome(uploaded_file, table_name, sample_size)
        created == Append(disk, NewTempFile)
    IN  /\ next_tmp' = path
        /\ disk' = IF out.error = None
                   THEN [created EXCEPT ![path].written = TRUE, ![path].table = out.table]
                   ELSE Cleanup(created, path)
        /\ ret' = [op |-> "create_sqlite_from_uploaded_file",
                   raised |-> out.error # None,
                   error |-> out.error,
                   value |-> IF out.error = None THEN PathValue(path) ELSE NoValue,
                   parsed |-> out.loaded,
                   source_rows |-> out.source_rows]
        /\ steps' = out.steps
        /\ history' = Append(history,
                             [table_name |-> table_name, sample_size |-> sample_size,
                              path |-> path, error |-> out.error,
                              columns |-> [k \in 1..Len(out.df.columns) |->
                                             PyStr(out.df.columns[k])]])
        /\ uploaded_file' = [uploaded_file EXCEPT !.pos = out.pos]

CreateSqlite(table_name, sample_size) ==
    /\ uploaded_file.present
    /\ next_tmp < MaxCalls
    /\ Create(table_name, sample_size)
    /\ UNCHANGED sanVars
    /\ UNCHANGED genVars
    /\ UNCHANGED appVars

\* app.py, "Convert to SQLite": the page run reads the file statistics, offers a
\* sample size between 0 and the number of rows, and converts
ConvertButton(table_name, ui_sample_size) ==
    /\ uploaded_file.present
    /\ next_tmp < MaxCalls
    /\ LET file_info == InfoOutcome(uploaded_file).value
       IN  /\ file_info.py = "dict"
           /\ "error" \notin file_info.keys
           /\ ui_sample_size \in 0..file_info.rows
    /\ Create(table_name, IF ui_sample_size > 0 THEN Some(ui_sample_size) ELSE NoneInt)
    /\ UNCHANGED sanVars
    /\ UNCHANGED genVars
    /\ UNCHANGED appVars

IngNext ==
    \/ (~uploaded_file.present /\ \E f \in Files : Upload(f))
    \/ GetFileInfo
    \/ \E n \in PreviewSizes : PreviewUploadedFile(n)
    \/ \E t \in TableNames, s \in SampleSizes : CreateSqlite(t, s)
    \/ \E t \in TableNames, u \in 0..MaxRows : ConvertButton(t, u)

IngSpec == Init /\ [][IngNext]_vars

(***************************************************************************)
(* Column cleaning on its own: a header is typed in, label by label and    *)
(* character by character, and the cleaning code is run on it.             *)
(***************************************************************************)
HeaderNext ==
    /\ applied = 0
    /\ IF original = <<>> THEN TRUE ELSE original[1].tag = "str"
    /\ Distinct(original)
    /\ original' = Append(original, StrLabel(<<>>))
    /\ columns' = original'
    /\ UNCHANGED <<prev_columns, applied>>
    /\ UNCHANGED ingVars
    /\ UNCHANGED genVars
    /\ UNCHANGED appVars

\* pd.DataFrame of a list of lists labels the columns 0 .. k-1
RangeHeader(k) ==
    /\ applied = 0
    /\ original = <<>>
    /\ original' = [i \in 1..k |-> IntLabel(i - 1)]
    /\ columns' = original'
    /\ UNCHANGED <<prev_columns, applied>>
    /\ UNCHANGED ingVars
    /\ UNCHANGED genVars
    /\ UNCHANGED appVars

HeaderChar(c) ==
    /\ applied = 0
    /\ original # <<>>
    /\ original[1].tag = "str"
    /\ TotalChars(original) < MaxChars
    /\ original' = [original EXCEPT ![Len(original)] = StrLabel(Append(@.s, c))]
    /\ columns' = original'
    /\ UNCHANGED <<prev_columns, applied>>
    /\ UNCHANGED ingVars
    /\ UNCHANGED genVars
    /\ UNCHANGED appVars

\* a header field whose text is that of a placeholder, "column_<k>", in a header
\* whose other fields so far are empty
PlaceholderHeader(k) ==
    /\ applied = 0
    /\ TotalChars(original) = 0
    /\ Distinct(original)
    /\ original' = Append(original, StrLabel(Placeholder(k)))
    /\ columns' = original'
    /\ UNCHANGED <<prev_columns, applied>>
    /\ UNCHANGED ingVars
    /\ UNCHANGED genVars
    /\ UNCHANGED appVars

\* the "Clean column names" block, run on df.columns
CleanColumns ==
    /\ applied < MaxPasses
    /\ original # <<>>
    /\ Distinct(original)
    /\ prev_columns' = columns
    /\ columns' = AsLabels(SanitizeColumns(columns))
    /\ applied' = applied + 1
    /\ UNCHANGED original
    /\ UNCHANGED ingVars
    /\ UNCHANGED genVars
    /\ UNCHANGED appVars

SanNext ==
    \/ HeaderNext
    \/ \E k \in 1..MaxChars : RangeHeader(k)
    \/ \E c \in HeaderAlphabet : HeaderChar(c)
    \/ \E k \in 0..MaxChars : PlaceholderHeader(k)
    \/ CleanColumns

SanSpec == Init /\ [][SanNext]_vars


(***************************************************************************)
(* The state machine of the code generation.                               *)
(***************************************************************************)
\* a record is appended to the JSON file
AddRecord(keys, row) ==
    /\ ~generated.called
    /\ Len(data.rows) < MaxRecords
    /\ IF data.rows = <<>> THEN TRUE ELSE keys = data.keys
    /\ data' = [keys |-> keys, rows |-> Append(data.rows, row)]
    /\ UNCHANGED generated
    /\ UNCHANGED <<sanVars, ingVars>>
    /\ UNCHANGED appVars

\* json_to_sqlite_sample_data(json_file_path, table_name, sample_size) on a file
\* holding a list of records
JsonToSqliteSampleData(table_name, sample_size) ==
    /\ ~generated.called
    /\ LET df == GenFrame(data.keys, data.rows)
           df_sample == IF Len(df.rows) > sample_size THEN SampleRows(df, sample_size) ELSE df
           cleaned == DirectColumns(df_sample.columns)
           renamed == [df_sample EXCEPT !.columns = AsLabels(cleaned.columns)]
       IN  generated' =
             IF cleaned.error # None
             THEN [NotGenerated EXCEPT !.called = TRUE, !.error = cleaned.error, !.df = df_sample]
             ELSE IF ColumnDtypeError(renamed) # None
             THEN [NotGenerated EXCEPT !.called = TRUE, !.error = ColumnDtypeError(renamed),
                                       !.df = renamed]
             ELSE [called |-> TRUE, error |-> None, df |-> renamed,
                   sql_types |-> ColumnSqlTypes(renamed),
                   create_table_sql |-> GenerateCreateTableSql(renamed, table_name),
                   record_values |-> RecordValues(renamed),
                   chunks |-> Chunks(Records(renamed)),
                   insert_sql |-> GenerateInsertSql(renamed, table_name)]
    /\ UNCHANGED data
    /\ UNCHANGED <<sanVars, ingVars>>
    /\ UNCHANGED appVars

\* generate_insert_sql(df, table_name) on a frame of n rows with the column id
\* holding 1..n
CallGenerateInsertSql(table_name, n) ==
    /\ ~generated.called
    /\ data.rows = <<>>
    /\ LET df == GenFrame(<<<<"i", "d">>>>,
                          [i \in 1..n |-> <<PyValue("int", i, 0, <<>>, FALSE)>>])
       IN  generated' =
             [NotGenerated EXCEPT !.called = TRUE, !.df = df,
                                  !.sql_types = ColumnSqlTypes(df),
                                  !.record_values = RecordValues(df),
                                  !.chunks = Chunks(Records(df)),
                                  !.insert_sql = GenerateInsertSql(df, table_name)]
    /\ UNCHANGED data
    /\ UNCHANGED <<sanVars, ingVars>>
    /\ UNCHANGED appVars

GenNext ==
    \/ \E keys \in GenHeaders, row \in [1..2 -> RawCells] : AddRecord(keys, row)
    \/ \E t \in TableNames, n \in {1, DefaultSampleSize} : JsonToSqliteSampleData(t, n)
    \/ \E t \in TableNames, k \in 0..MaxChunks, d \in {0, 1} :
          CallGenerateInsertSql(t, k * chunk_size + d)

GenSpec == Init /\ [][GenNext]_vars

(***************************************************************************)
(* The state machine of the page: every change of a widget and every       *)
(* button reruns the script.                                               *)
(***************************************************************************)
\* the script from "Main interface" on, with what the connection set-up has left,
\* and the state the run leaves behind
Finish(w, setup, clicked, changed) ==
    LET ran == ExecuteQuery(setup.engine, w.query, setup.session_state, setup.dbs,
                            clicked = "execute")
        gen == GenAi(w, ran.session_state, setup.engine)
    IN  /\ widgets' = w
        /\ session_state' = gen.session_state
        /\ engine' = setup.engine
        /\ page' = [loaded |-> TRUE, clicked |-> clicked, shown |-> ran.shown, ai |-> gen.ai]
        /\ connected' = (setup.ok \/ (connected /\ ~changed))
        /\ dbs' = ran.dbs
        /\ committed' = (ran.committed
                         \/ (committed /\ ~changed /\ ~(clicked = "convert" /\ setup.ok)))
        /\ UNCHANGED <<sanVars, ingVars, genVars, chatVars>>

\* one run of the script with the widgets w and the session state ss, started by
\* the button clicked; changed tells whether the user has just changed which
\* backend the page is set to
Rerun(w, ss, clicked, reachable, changed) ==
    Finish(Rendered(w, ss), Setup(Rendered(w, ss), ss, dbs, clicked, reachable), clicked, changed)

\* a quick-action button: current_query is set and st.rerun() starts the script
\* again; the text area shows its value argument when that argument has changed
SetCurrentQuery(query) ==
    Rerun([widgets EXCEPT !.query = IF session_state.current_query # query THEN query ELSE @],
          [session_state EXCEPT !.current_query = query], "", TRUE, FALSE)

\* the browser opens the page
Load ==
    /\ ~page.loaded
    /\ Rerun(widgets, session_state, "", TRUE, FALSE)

SelectDbType(db_type) ==
    /\ page.loaded
    /\ db_type # widgets.db_type
    /\ Rerun([widgets EXCEPT !.db_type = db_type], session_state, "", TRUE, TRUE)

ToggleConvert ==
    /\ page.loaded
    /\ widgets.db_type = "SQLite (File Upload)"
    /\ Rerun([widgets EXCEPT !.convert = ~@], session_state, "", TRUE, TRUE)

\* a file is put into the csv/json uploader, or taken out of it
UploadCsvJson(file) ==
    /\ page.loaded
    /\ widgets.db_type = "SQLite (File Upload)"
    /\ widgets.convert
    /\ file # widgets.uploaded_file
    /\ Rerun([widgets EXCEPT !.uploaded_file = file], session_state, "", TRUE, TRUE)

\* a file is put into the SQLite uploader, or taken out of it
UploadDb(db_file) ==
    /\ page.loaded
    /\ widgets.db_type = "SQLite (File Upload)"
    /\ ~widgets.convert
    /\ db_file # widgets.db_file
    /\ Rerun([widgets EXCEPT !.db_file = db_file], session_state, "", TRUE, TRUE)

TypeQuery(query) ==
    /\ page.loaded
    /\ query # widgets.query
    /\ Rerun([widgets EXCEPT !.query = query], session_state, "", TRUE, FALSE)

ClickConnect(reachable) ==
    /\ page.loaded
    /\ widgets.db_type \in RemoteTypes
    /\ Rerun(widgets, session_state, "connect", reachable, FALSE)

ClickConvert ==
    /\ page.loaded
    /\ widgets.uploaded_file.present
    /\ ~InfoFails[widgets.uploaded_file]
    /\ Rerun(widgets, session_state, "convert", TRUE, FALSE)

ClickExecute ==
    /\ page.loaded
    /\ Rerun(widgets, session_state, "execute", TRUE, FALSE)

\* the "Show all employees" button of the sample queries
ClickSampleQuery ==
    /\ page.loaded
    /\ widgets.db_type = "SQLite (Sample Data)"
    /\ SetCurrentQuery(SampleQuery)

\* a button of the query history, which shows the last five entries
ClickHistory(i) ==
    /\ page.loaded
    /\ i \in 1..Len(session_state.query_history)
    /\ i > Len(session_state.query_history) - 5
    /\ SetCurrentQuery(session_state.query_history[i])

\* the Clear button
ClickClear ==
    /\ page.loaded
    /\ SetCurrentQuery(<<>>)

\* the "Use Generative Ai" toggle
ToggleGenAi ==
    /\ page.loaded
    /\ Strip(session_state.current_query) # <<>>
    /\ Rerun([widgets EXCEPT !.use_gen_ai = ~@], session_state, "", TRUE, FALSE)

\* the API key is typed into the password input, or deleted from it
TypeApiKey(key) ==
    /\ page.loaded
    /\ widgets.use_gen_ai
    /\ key # widgets.api_key
    /\ Rerun([widgets EXCEPT !.api_key = key], session_state, "", TRUE, FALSE)

AppNext ==
    \/ Load
    \/ \E t \in DbTypes : SelectDbType(t)
    \/ ToggleConvert
    \/ \E f \in AppFiles : UploadCsvJson(Uploaded(f))
    \/ UploadCsvJson(NoFile)
    \/ \E f \in {"none", "valid", "invalid"} : UploadDb(f)
    \/ \E q \in Queries : TypeQuery(q)
    \/ \E r \in BOOLEAN : ClickConnect(r)
    \/ ClickConvert
    \/ ClickExecute

AppSpec == Init /\ [][AppNext]_vars

\* a session that stays on the sample database or on the file upload without a
\* file and does not modify the database, with the quick actions and the
\* "Gen Ai" section
AiNext ==
    \/ Load
    \/ \E t \in {"SQLite (Sample Data)", "SQLite (File Upload)"} : SelectDbType(t)
    \/ \E q \in {<<>>, <<"S", "E", "L", "E", "C", "T", " ", "1">>, <<"S", "E", "L", "E", "C">>} :
          TypeQuery(q)
    \/ ClickExecute
    \/ ClickSampleQuery
    \/ \E i \in 1..Cardinality(Queries) : ClickHistory(i)
    \/ ClickClear
    \/ ToggleGenAi
    \/ \E key \in BOOLEAN : TypeApiKey(key)

AiSpec == Init /\ [][AiNext]_vars

(***************************************************************************)
(* The state machine of the insight generator.                             *)
(***************************************************************************)
\* SQLInsightGenerator(API_KEY), which app.py constructs on every run of the
\* "Gen Ai" section: initialize_session_state keeps the entries that exist
NewGenerator(api_key) ==
    /\ insight' = [insight EXCEPT !.constructed = TRUE, !.client = api_key, !.returned = ""]
    /\ UNCHANGED <<sanVars, ingVars, genVars, pageVars, chat>>

\* generate_response(prompt, response_type), which analyze_data,
\* suggest_visualizations, explain_query and generate_sql_query end with.  raises
\* tells where the try block raises: "prompt" while the context is formatted,
\* "chat" in self.client.chat, "" nowhere.
GenerateResponse(raises) ==
    /\ insight.constructed
    /\ insight' =
          IF ~insight.client THEN [insight EXCEPT !.returned = "API key not provided"]
          ELSE IF raises = "prompt" THEN [insight EXCEPT !.returned = "Error generating response"]
          ELSE LET managed == ManageConversationHistory(insight)
                   asked == [managed EXCEPT !.ai_messages = Append(@, [role |-> "user"])]
               IN  IF raises = "chat"
                   THEN [asked EXCEPT !.returned = "Error generating response"]
                   ELSE [asked EXCEPT !.ai_messages = Append(@, [role |-> "assistant"]),
                                      !.returned = "assistant_response"]
    /\ UNCHANGED <<sanVars, ingVars, genVars, pageVars, chat>>

\* the "Clear Chat History" button of display_chat_history
ClearChatHistory ==
    /\ insight.constructed
    /\ insight.ai_messages # <<>>
    /\ insight' = [insight EXCEPT !.ai_messages = <<>>, !.contextual_counter = 0,
                                  !.returned = ""]
    /\ UNCHANGED <<sanVars, ingVars, genVars, pageVars, chat>>

InsNext ==
    \/ \E api_key \in BOOLEAN : NewGenerator(api_key)
    \/ \E raises \in {"", "prompt", "chat"} : GenerateResponse(raises)
    \/ ClearChatHistory

InsSpec == Init /\ [][InsNext]_vars

(***************************************************************************)
(* The state machine of sql_gen.py.                                        *)
(***************************************************************************)
\* the Submit button with query in the text input; raises tells whether
\* co.chat_stream or the iteration over its events raises
Submit(query, raises) ==
    /\ chat' =
          IF query = <<>> THEN [chat EXCEPT !.query = query, !.sent = <<>>]
          ELSE LET asked == Append(chat.messages, [role |-> "user", content |-> query])
                   cleared == chat.contextual_counter + 1 >= 5
                   messages == IF cleared THEN <<>> ELSE asked
                   complied_messages ==
                       <<[role |-> "user",
                          content |-> <<"\n", " ", " ", " ", " ", "#", "#", " ", "T", "a", "s", "k", " ", "a", "n", "d", " ", "C", "o", "n", "t", "e", "x", "t", "\n", " ", " ", " ", " ", "Y", "o", "u", " ", "a", "r", "e", " ", "a", "n", " ", "a", "s", "s", "i", "s", "t", "a", "n", "t", " ", "w", "h", "o", " ", "a", "s", "s", "i", "s", "t", " ", "n", "e", "w", " ", "S", "Q", "L", " ", "p", "r", "o", "g", "r", "a", "m", "m", "e", "r", "s", " ", "i", "d", "e", "n", "t", "i", "f", "y", " ", "r", "e", "l", "a", "t", "i", "o", "n", "s", "h", "i", "p", "s", " ", "i", "n", " ", "a", " ", "d", "a", "t", "a", "s", "e", "t", ".", "\n", " ", " ", " ", " ", "\n", " ", " ", " ", " ", "#", "#", " ", "S", "t", "y", "l", "e", " ", "G", "u", "i", "d", "e", "\n", " ", " ", " ", " ", "T", "r", "y", " ", "t", "o", " ", "r", "e", "t", "u", "r", "n", " ", "t", "h", "e", " ", "b", "e", "s", "t", " ", "f", "i", "t", " ", "S", "Q", "L", " ", "q", "u", "e", "r", "y", " ", "a", "s", " ", "m", "u", "c", "h", " ", "a", "s", " ", "p", "o", "s", "s", "i", "b", "l", "e", ".", " ", "B", "e", " ", "s", "u", "c", "c", "i", "n", "c", "t", " ", "a", "n", "d", " ", "s", "t", "r", "a", "i", "g", "h", "t", " ", "t", "o", " ", "t", "h", "e", " ", "p", "o", "i", "n", "t", ".", "\n", " ", " ", " ", " ">>]>>
                       \o messages
               IN  [contextual_counter |-> IF cleared THEN 0 ELSE chat.contextual_counter + 1,
                    messages |-> IF raises THEN messages
                                 ELSE Append(messages, [role |-> "assistant",
                                                        content |-> <<"full_response">>]),
                    query |-> query,
                    sent |-> complied_messages]
    /\ UNCHANGED <<sanVars, ingVars, genVars, pageVars, insight>>

SqlGenNext ==
    \E query \in {<<>>, <<"a">>, <<"b">>}, raises \in BOOLEAN : Submit(query, raises)

SqlGenSpec == Init /\ [][SqlGenNext]_vars

(***************************************************************************)
(* Properties.                                                             *)
(***************************************************************************)
\* the names handed to the columns before column i
Earlier(names, i) == {names[k] : k \in 1..(i - 1)}

WordChars == Range(LowerCase) \cup Range(UpperCase) \cup Range(DigitChars) \cup {Underscore}
IsIdentifier(name) == \A i \in 1..Len(name) : name[i] \in WordChars

LastCall == history[Len(history)]
CreateReturned == ret.op = "create_sqlite_from_uploaded_file" /\ ~ret.raised
CreateRaised == ret.op = "create_sqlite_from_uploaded_file" /\ ret.raised

\* C1: after the cleaning code has run, no two columns of the frame have the same
\* name, whatever the original labels were, also when the suffixed name of a
\* duplicate is a name another column has or is cleaned to.
C1_NamesPairwiseDistinct ==
    applied >= 1 => Distinct(Names(columns))

\* a later column is cleaned to the very name an earlier duplicate got by suffixing
C1_Witness ==
    /\ applied = 1
    /\ \E i, j \in 1..Len(columns) :
          /\ i < j
          /\ CleanedNames(original)[i] # PyStr(columns[i])
          /\ CleanedNames(original)[j] = PyStr(columns[i])

\* C2: every column name of a written table consists only of letters, digits and
\* underscores, whatever characters the original label had.
C2_OnlyWordCharacters ==
    \A path \in 1..Len(disk) :
        disk[path].written =>
            \A k \in 1..Len(disk[path].table.columns) :
                IsIdentifier(disk[path].table.columns[k])

\* C3 as stated: the first column with a given cleaned name keeps it, and each
\* later column with that name n gets n_j for the smallest j >= 1 such that n_j is
\* not a name handed to an earlier column.
C3_FirstOccurrenceKeepsName ==
    applied = 1 =>
        LET cleaned == CleanedNames(original)
            names == Names(columns)
        IN  \A i \in 1..Len(names) :
                IF \A k \in 1..(i - 1) : cleaned[k] # cleaned[i]
                THEN names[i] = cleaned[i]
                ELSE \E j \in 1..Len(names) :
                        /\ names[i] = Suffixed(cleaned[i], j)
                        /\ names[i] \notin Earlier(names, i)
                        /\ \A m \in 1..(j - 1) : Suffixed(cleaned[i], m) \in Earlier(names, i)

\* C3 amended: a column keeps its cleaned name n exactly when n is not a name
\* handed to an earlier column; otherwise it gets n_j for the smallest j >= 1 such
\* that n_j is not a name handed to an earlier column.
C3_SmallestUnusedSuffix ==
    applied = 1 =>
        LET cleaned == CleanedNames(original)
            names == Names(columns)
        IN  \A i \in 1..Len(names) :
                IF cleaned[i] \notin Earlier(names, i)
                THEN names[i] = cleaned[i]
                ELSE \E j \in 1..Len(names) :
                        /\ names[i] = Suffixed(cleaned[i], j)
                        /\ names[i] \notin Earlier(names, i)
                        /\ \A m \in 1..(j - 1) : Suffixed(cleaned[i], m) \in Earlier(names, i)

\* a duplicate skips the suffix 1, which an earlier column has, and gets 2
C3_Witness ==
    /\ applied = 1
    /\ \E i \in 1..Len(columns) :
          /\ PyStr(columns[i]) = Suffixed(CleanedNames(original)[i], 2)
          /\ Suffixed(CleanedNames(original)[i], 1) \in Earlier(Names(columns), i)

\* C4: running the whole cleaning code on names it has produced gives the same
\* names again.
C4_Idempotent ==
    applied >= 2 => columns = prev_columns

\* the first pass replaced characters, collapsed underscores or suffixed a duplicate
C4_Witness ==
    /\ applied = 2
    /\ Names(prev_columns) # Names(original)
    /\ \E i \in 1..Len(original) : CleanedNames(original)[i] # PyStr(prev_columns[i])

\* C5: a successful call writes min(N, sample_size) rows when a sample size is
\* given and all N rows when it is None or 0.
C5_RowCount ==
    CreateReturned =>
        LET written == Len(disk[ret.value.path].table.rows)
            size == LastCall.sample_size
        IN  IF size.some /\ size.n > 0
            THEN written = (IF ret.source_rows < size.n THEN ret.source_rows ELSE size.n)
            ELSE written = ret.source_rows

\* a call that sampled, and a call that was given 0 and took every row
C5_Witness ==
    /\ CreateReturned
    /\ Len(history) = 2
    /\ history[1].error = None
    /\ history[1].sample_size = Some(0)
    /\ LastCall.sample_size.some
    /\ LastCall.sample_size.n > 0
    /\ LastCall.sample_size.n < ret.source_rows

C7_FailureLeavesNoFile ==
    CreateRaised =>
        /\ ret.value.py = "None"
        /\ ~disk[LastCall.path].exists
        /\ ~disk[LastCall.path].written

\* the failure came last of all, while the table was being written
C7_Witness ==
    /\ CreateRaised
    /\ ret.error = "OperationalError"
    /\ steps[Len(steps)] = "to_sql"
    /\ uploaded_file.pos = "end"

\* C8: a source that parses to zero records makes the call fail with the
\* empty-source error, before any sampling and before any table is written.
C8_EmptySourceFirst ==
    ( /\ ret.op = "create_sqlite_from_uploaded_file"
      /\ ret.parsed
      /\ ret.source_rows = 0 )
    => /\ ret.raised
       /\ ret.error = "The uploaded file contains no data"
       /\ "sample" \notin Range(steps)
       /\ "to_sql" \notin Range(steps)
       /\ ~disk[LastCall.path].written

\* a parsed source without records, converted with a sample size
C8_Witness ==
    /\ ret.op = "create_sqlite_from_uploaded_file"
    /\ ret.parsed
    /\ ret.source_rows = 0
    /\ LastCall.sample_size.some
    /\ LastCall.sample_size.n # 0
    /\ ret.error = "The uploaded file contains no data"

\* C9: for a file whose name ends in neither .csv nor .json get_file_info returns
\* an error result; it never returns a value with neither statistics nor an error.
C9_UnsupportedNameIsError ==
    ret.op = "get_file_info" =>
        /\ ret.value.py = "dict"
        /\ "rows" \in ret.value.keys \/ "error" \in ret.value.keys
        /\ ( ~EndsWith(uploaded_file.name, CsvSuffix) /\ ~EndsWith(uploaded_file.name, JsonSuffix) )
           => "error" \in ret.value.keys

\* C10: preview_uploaded_file never returns a record sequence for a source that
\* parses to zero records: it reports an error.
C10_EmptyPreviewIsError ==
    ( ret.op = "preview_uploaded_file" /\ ret.value.py = "DataFrame" )
    => Len(ret.value.frame.rows) > 0

\* the parsed JSON value of the uploaded file, when the file is a .json file that parses
JsonCall ==
    /\ ret.op = "create_sqlite_from_uploaded_file"
    /\ EndsWith(uploaded_file.name, JsonSuffix)
    /\ uploaded_file.body.kind = "json"
IsObjectArray(doc) ==
    doc.t = "array" /\ \A i \in 1..Len(doc.items) : doc.items[i].t = "object"
IsArrayWrapper(doc) ==
    doc.t = "object" /\ Len(doc.keys) = 1 /\ doc.vals[1].t = "array"

\* C11: the call fails with the unsupported-JSON-structure error for every parsed
\* JSON value that is neither an array of objects, nor a single-key object around
\* an array of objects, nor a bare object.
C11_OtherShapesRejected ==
    LET doc == uploaded_file.body.doc
    IN  ( /\ JsonCall
          /\ ~IsObjectArray(doc)
          /\ ~(IsArrayWrapper(doc) /\ IsObjectArray(doc.vals[1]))
          /\ doc.t # "object" )
        => /\ ret.raised
           /\ ret.error = "Unsupported JSON structure"

\* C12: a JSON object that is not a single-key wrapper around an array is written
\* as a table of one row whose columns are the cleaned keys of the object and
\* whose row holds its values, for one key as for several.
C12_BareObjectIsOneRow ==
    LET doc == uploaded_file.body.doc
    IN  ( /\ JsonCall
          /\ ~ret.raised
          /\ doc.t = "object"
          /\ ~IsArrayWrapper(doc) )
        => LET table == disk[ret.value.path].table
           IN  /\ table.columns = SanitizeColumns(AsLabels(doc.keys))
               /\ table.rows = <<[c \in 1..Len(doc.keys) |-> doc.vals[c].v]>>

\* C13: after get_file_info or preview_uploaded_file has returned, the read
\* position of the uploaded file is back at the start, whether the call returned
\* statistics or rows, a parse error or a decode error.
C13_PositionRestored ==
    ret.op \in {"get_file_info", "preview_uploaded_file"} => uploaded_file.pos = "start"

NonEmptyFragments(name) == SelectSeq(SplitUnderscore(name, <<>>), LAMBDA part : part # <<>>)
RevenueLabel ==
    StrLabel(<<"2", "0", "2", "3", " ", "Q", "1", " ", "(", "R", "e", "v", "e", "n", "u", "e", ")">>)
RevenueName ==
    <<"2", "0", "2", "3", "_", "Q", "1", "_", "R", "e", "v", "e", "n", "u", "e">>

\* C14: a cleaned column name has no leading underscore, no trailing underscore
\* and no two underscores in a row; split at its underscores it gives exactly the
\* non-empty fragments of the name after character replacement; '2023 Q1 (Revenue)'
\* becomes '2023_Q1_Revenue'.
C14_FragmentsJoinedOnce ==
    applied >= 1 =>
        /\ \A k \in 1..Len(columns) :
              LET name == PyStr(columns[k])
              IN  /\ name # <<>>
                  /\ name[1] # Underscore
                  /\ name[Len(name)] # Underscore
                  /\ \A i \in 1..(Len(name) - 1) :
                        ~(name[i] = Underscore /\ name[i + 1] = Underscore)
        /\ applied = 1 =>
              \A k \in 1..Len(original) :
                  LET replaced == ReplaceChars(PyStr(original[k]))
                      cleaned == CleanName(original[k])
                  IN  cleaned # <<>> =>
                          SplitUnderscore(cleaned, <<>>) = NonEmptyFragments(replaced)
        /\ CleanName(RevenueLabel) = RevenueName

\* a name that, after replacement, starts and ends with an underscore and has
\* two underscores in a row between two fragments
C14_Witness ==
    /\ applied = 1
    /\ \E k \in 1..Len(original) :
          LET replaced == ReplaceChars(PyStr(original[k]))
          IN  /\ Len(replaced) >= 6
              /\ replaced[1] = Underscore
              /\ replaced[Len(replaced)] = Underscore
              /\ \E i \in 2..(Len(replaced) - 3) :
                    /\ replaced[i] # Underscore
                    /\ replaced[i + 1] = Underscore
                    /\ replaced[i + 2] = Underscore
                    /\ replaced[i + 3] # Underscore
              /\ PyStr(columns[k]) = CleanName(original[k])

\* C15 as stated: a column whose name is empty after replacement and collapsing
\* is named column_<i>, i its zero-based position; no column has an empty name.
C15_EmptyNameGetsPlaceholder ==
    applied = 1 =>
        \A i \in 1..Len(columns) :
            /\ PyStr(columns[i]) # <<>>
            /\ CleanName(original[i]) = <<>> => PyStr(columns[i]) = Placeholder(i - 1)

\* C15 amended: such a column is named column_<i> unless an earlier column has
\* been handed that very name; then it is named column_<i>_<j>, a name no earlier
\* column has.  No column has an empty name.
C15_PlaceholderOrSuffixed ==
    applied = 1 =>
        LET names == Names(columns)
        IN  \A i \in 1..Len(names) :
                /\ names[i] # <<>>
                /\ CleanName(original[i]) = <<>> =>
                      IF Placeholder(i - 1) \notin Earlier(names, i)
                      THEN names[i] = Placeholder(i - 1)
                      ELSE /\ \E j \in 1..Len(names) : names[i] = Suffixed(Placeholder(i - 1), j)
                           /\ names[i] \notin Earlier(names, i)

\* an empty name in second place, after a column that is called column_1
C15_Witness ==
    /\ applied = 1
    /\ Len(columns) = 2
    /\ PyStr(original[1]) = Placeholder(1)
    /\ CleanName(original[2]) = <<>>
    /\ PyStr(columns[2]) = Suffixed(Placeholder(1), 1)

\* C16: column names that differ only in letter case are treated as colliding, so
\* once the cleaning code has run no two columns of the frame have names that are
\* equal up to letter case.
C16_DistinctIgnoringCase ==
    ( ret.op = "create_sqlite_from_uploaded_file" /\ "clean" \in Range(steps) )
    => Distinct([k \in 1..Len(LastCall.columns) |-> LowerName(LastCall.columns[k])])

\* C17: for the same original column names, the cleaning code of
\* create_sqlite_from_uploaded_file and the cleaning code of
\* create_sqlite_file_directly, csv_to_sqlite_sample_data and
\* json_to_sqlite_sample_data give the same names.
C17_SameNamesAtEveryEntryPoint ==
    applied = 1 =>
        /\ DirectColumns(original).error = None
        /\ DirectColumns(original).columns = Names(columns)

Generated == generated.called /\ generated.error = None

\* C18: generate_insert_sql emits the unquoted literal NULL for every missing
\* cell, None or NaN, and the quoted string 'NULL' for a cell holding the text NULL.
C18_MissingCellsAreNull ==
    Generated =>
        \A r \in 1..Len(generated.df.rows) :
            \A c \in 1..Len(generated.df.columns) :
                LET value == generated.df.rows[r][c]
                    emitted == generated.record_values[r][c]
                IN  /\ value.kind \in {"None", "nan"} => emitted = <<"N", "U", "L", "L">>
                    /\ (value.kind = "str" /\ value.s = <<"N", "U", "L", "L">>)
                          => emitted = <<"'", "N", "U", "L", "L", "'">>

\* one frame holds a None, a NaN and the text NULL
C18_Witness ==
    /\ Generated
    /\ \E r \in 1..Len(generated.df.rows), c \in 1..Len(generated.df.columns) :
          generated.df.rows[r][c].kind = "None"
    /\ \E r \in 1..Len(generated.df.rows), c \in 1..Len(generated.df.columns) :
          generated.df.rows[r][c].kind = "nan"
    /\ \E r \in 1..Len(generated.df.rows), c \in 1..Len(generated.df.columns) :
          /\ generated.df.rows[r][c].kind = "str"
          /\ generated.record_values[r][c] = <<"'", "N", "U", "L", "L", "'">>

IsWhole(value) == value.kind = "int" \/ (value.kind = "float" /\ value.frac = 0)
\* the types the reference rule allows for a column with these values; a column
\* of booleans may be INTEGER
ReferenceTypes(cells) ==
    LET present == {i \in 1..Len(cells) : cells[i].kind \notin {"None", "nan"}}
    IN  IF present = {} THEN {<<"T", "E", "X", "T">>}
        ELSE IF \A i \in present : IsWhole(cells[i]) THEN {<<"I", "N", "T", "E", "G", "E", "R">>}
        ELSE IF \A i \in present : cells[i].kind \in {"int", "float"} THEN {<<"R", "E", "A", "L">>}
        ELSE IF \A i \in present : cells[i].kind = "bool"
             THEN {<<"I", "N", "T", "E", "G", "E", "R">>, <<"T", "E", "X", "T">>}
        ELSE {<<"T", "E", "X", "T">>}

\* C19: generate_create_table_sql never fails, and the type it gives a column is
\* INTEGER when every non-null value is a whole number, REAL when all non-null
\* values are numbers and one has a fraction, TEXT otherwise, also for a column
\* of mixed values and for a column without a non-null value.
C19_TypesFollowReferenceRule ==
    generated.called =>
        /\ generated.error = None
        /\ \A c \in 1..Len(generated.df.columns) :
              generated.sql_types[c] \in
                  ReferenceTypes([r \in 1..Len(generated.df.rows) |-> generated.df.rows[r][c]])

\* C20: for every backend, once a page run has set up the connection, a later
\* page run started by Execute with a non-empty query executes the query; it
\* does not show the "configure database connection first" warning.
C20_ExecuteAfterSetup ==
    ( /\ page.clicked = "execute"
      /\ widgets.query # <<>>
      /\ connected )
    => /\ page.shown # "Please configure database connection first"
       /\ page.shown \in {"executed", "error"}

\* C21: query_history never holds a text twice, and a page run appends the text
\* of the query area exactly when Execute ran it without an exception and the
\* history does not hold it yet; a query whose execution raises is not added.
C21_HistoryOfSuccessfulQueries ==
    [][ LET before == session_state.query_history
            after == session_state'.query_history
        IN  /\ \A i, j \in 1..Len(after) : after[i] = after[j] => i = j
            /\ after = IF page'.shown = "executed" /\ widgets'.query \notin Range(before)
                       THEN Append(before, widgets'.query)
                       ELSE before ]_vars

\* a query is executed again after another one has entered the history
C21_Witness ==
    /\ Len(session_state.query_history) >= 2
    /\ page.clicked = "execute"
    /\ page.shown = "executed"
    /\ widgets.query = session_state.query_history[1]

\* C22: whenever update_context has been called, the query it was given is the
\* statement whose execution produced the frame it was given
\* (st.session_state.returned_df): an executed query with that result.
C22_ContextQueryProducedTheFrame ==
    session_state.current_context.updated =>
        /\ session_state.current_context.last_query \in Range(session_state.query_history)
        /\ session_state.current_context.data_summary
              = ResultFrame(session_state.current_context.last_query)

\* C23: in every state in which the "Gen Ai" section has read
\* st.session_state.returned_df, a query that returns data has been executed
\* earlier in the session and returned_df is defined.
C23_ReadsReturnedDfAfterExecution ==
    page.ai # "" =>
        /\ session_state.returned_df.defined
        /\ \E i \in 1..Len(session_state.query_history) :
              ReturnsData(session_state.query_history[i])

\* C24: after every generate_response call contextual_counter is in 0..9 and
\* ai_messages holds at most 22 entries; the call with a client that finds the
\* counter at 9 cuts the history to its last 2 messages and sets the counter to 0
\* before it appends the new user message.
C24_CounterAndHistoryBounded ==
    [][ /\ insight'.contextual_counter \in 0..9
        /\ Len(insight'.ai_messages) <= 22
        /\ ( /\ insight'.returned \in {"assistant_response", "Error generating response"}
             /\ insight'.contextual_counter # insight.contextual_counter
             /\ insight.contextual_counter = 9 )
           => LET old == insight.ai_messages
                  kept == SubSeq(old, IF Len(old) > 2 THEN Len(old) - 1 ELSE 1, Len(old))
                  new == insight'.ai_messages
              IN  /\ insight'.contextual_counter = 0
                  /\ Len(kept) = 2
                  /\ Len(new) \in {3, 4}
                  /\ SubSeq(new, 1, 2) = kept
                  /\ new[3].role = "user" ]_vars

\* the history is full: nine answered calls after a trimming one
C24_Witness ==
    /\ insight.contextual_counter = 9
    /\ Len(insight.ai_messages) = 22

\* C26: ai_messages always alternates roles starting with a user message, and
\* every user message is immediately followed by an assistant message.
C26_RolesAlternate ==
    LET messages == insight.ai_messages
    IN  /\ \A i \in 1..Len(messages) :
              messages[i].role = IF i % 2 = 1 THEN "user" ELSE "assistant"
        /\ Len(messages) % 2 = 0

\* C25: on every Submit with a non-empty query, the message list given to the
\* chat API ends with that query as a user message, whatever the value of
\* contextual_counter.
C25_SentEndsWithTheQuery ==
    chat.query # <<>> =>
        /\ chat.sent # <<>>
        /\ chat.sent[Len(chat.sent)] = [role |-> "user", content |-> chat.query]

\* C27: generate_insert_sql emits a boolean cell as 1 for true and 0 for false,
\* and a column of booleans has the type INTEGER.
C27_BooleansAsIntegers ==
    Generated =>
        \A c \in 1..Len(generated.df.columns) :
            /\ generated.df.dtypes[c] = "bool"
                  => generated.sql_types[c] = <<"I", "N", "T", "E", "G", "E", "R">>
            /\ \A r \in 1..Len(generated.df.rows) :
                  generated.df.rows[r][c].kind = "bool"
                      => generated.record_values[r][c]
                            = IF generated.df.rows[r][c].b THEN <<"1">> ELSE <<"0">>

RECURSIVE Flatten(_)
Flatten(seqs) == IF seqs = <<>> THEN <<>> ELSE Head(seqs) \o Flatten(Tail(seqs))

\* how many INSERT statements a text holds
Inserts(text) ==
    Cardinality({i \in 1..Len(text) :
        /\ i + 10 <= Len(text)
        /\ SubSeq(text, i, i + 10) = <<"I", "N", "S", "E", "R", "T", " ", "I", "N", "T", "O">>})

\* C28: for a frame of n rows generate_insert_sql emits ceil(n/100) INSERT
\* statements, each with at least 1 and at most 100 value tuples, and the tuples
\* of the statements in order are the rows of the frame in order; a frame of 0
\* rows yields no statement.
C28_ChunksOfAHundred ==
    Generated =>
        LET n == Len(generated.df.rows)
            tuples == [r \in 1..n |->
                         <<"(">> \o JoinWith(<<",", " ">>, generated.record_values[r]) \o <<")">>]
        IN  /\ Len(generated.chunks) = (n + 99) \div 100
            /\ Inserts(generated.insert_sql) = (n + 99) \div 100
            /\ \A k \in 1..Len(generated.chunks) :
                  Len(generated.chunks[k]) \in 1..100
            /\ Flatten(generated.chunks) = tuples
            /\ n = 0 => generated.insert_sql = <<>>

\* 201 rows: two full statements and one with the last row
C28_Witness ==
    /\ Generated
    /\ Len(generated.df.rows) = 2 * chunk_size + 1
    /\ Len(generated.chunks) = 3
    /\ generated.chunks[3] = << <<"(", "2", "0", "1", ")">> >>

\* C29: in convert mode a query is only ever run against the database converted
\* from the file the uploader holds now, also after another file has been
\* uploaded and after a conversion has failed.
C29_EngineOfCurrentUpload ==
    ( /\ widgets.db_type = "SQLite (File Upload)"
      /\ widgets.convert
      /\ page.clicked = "execute"
      /\ page.shown \in {"executed", "error"} )
    => session_state.converted_from = widgets.uploaded_file

\* C30: on every SQLite backend, once a page run has committed CREATE TABLE t (x)
\* and the user has left the backend as it is, a later page run that executes
\* SELECT * FROM t finds the table.
C30_CommittedStaysVisible ==
    [][ ( /\ committed
          /\ committed'
          /\ page'.clicked = "execute"
          /\ widgets'.query = <<"S", "E", "L", "E", "C", "T", " ", "*", " ", "F", "R", "O", "M", " ", "t">> )
        => page'.shown = "executed" ]_vars

====
